---- MODULE Spec2Model ----
(***************************************************************************)
(* A model of core/src/run.rs of dust: the Run aggregate with its status   *)
(* ledger (RunStatus), the concurrency resolver of RunConfig and the read  *)
(* path cmd_inspect.                                                       *)
(*                                                                         *)
(* Four specifications share the module:                                   *)
(*   Spec            - one Run and the calls of its mutators, with the     *)
(*                     whole universe of BlockStatus values;               *)
(*   SpecRun         - the two constructors over every combination of      *)
(*                     their arguments, followed by the mutators;          *)
(*   SpecConcurrency - RunConfig::concurrency_for_block as a function;     *)
(*   SpecInspect     - cmd_inspect, one step per await point.              *)
(***************************************************************************)
EXTENDS Integers, Sequences, FiniteSets, TLC

VARIABLES
    run,      \* the Run value (struct Run)
    last,     \* the last call made on it: [op, arg, from]
    origin,   \* the constructor that made it: "new" or "new_from_store"
    cfg,      \* SpecConcurrency: the RunConfig
    query,    \* SpecConcurrency: the (block_type, name) asked for
    result,   \* SpecConcurrency: the value returned, or NotCalled
    store,    \* SpecInspect: the runs the store holds, oldest first
    req,      \* SpecInspect: the arguments of cmd_inspect
    pc,       \* SpecInspect: the await cmd_inspect is at
    inspect_run_id, \* SpecInspect: cmd_inspect's local `run_id`
    loaded,   \* SpecInspect: cmd_inspect's local `run`, None before load_run
    calls,    \* SpecInspect: the store calls made so far, with what they returned
    out,      \* SpecInspect: what was reported so far (utils::info, println, utils::error)
    ret,      \* SpecInspect: the Result cmd_inspect returned, or Pending
    status_in, \* SpecStatus: the Status to render
    str_in,    \* SpecStatus: the string to parse
    rendered,  \* SpecStatus: what to_string returned, or NotCalled
    parsed,    \* SpecStatus: what from_str returned, or NotCalled
    history    \* SpecOrder: the arguments of the set_block_status calls so far

runVars == <<run, last, origin>>
concVars == <<cfg, query, result>>
inspVars == <<store, req, pc, inspect_run_id, loaded, calls, out, ret>>
convVars == <<status_in, str_in, rendered, parsed>>
vars == <<run, last, origin, cfg, query, result, store, req, pc,
         inspect_run_id, loaded, calls, out, ret,
         status_in, str_in, rendered, parsed, history>>

----------------------------------------------------------------------------
(* Bounds of the model. *)

\* The longest block-status list a set_block_status call may still extend.
MaxBlocks == 2

\* The largest "concurrency" override the configurations carry (besides 100).
MaxConcurrency == 3

\* The number of set_block_status calls whose arguments are kept in history.
MaxCalls == 3

\* The most entries the trace matrix of a stored run holds.
MaxTraceLen == 2

----------------------------------------------------------------------------
(* enum Status and enum BlockType. *)

Status == {"Running", "Succeeded", "Errored"}

BlockType == {"input", "data", "code", "llm", "map", "reduce"}

\* The (block_type, name) keys the ledger is exercised with: two share the type,
\* two share the name.
BlockKeys == {<<"llm", "a">>, <<"llm", "b">>, <<"code", "a">>}

\* (success_count, error_count) pairs the calls carry.
CountPairs == {<<1, 0>>, <<0, 1>>}

\* struct BlockStatus
BlockStatus(t, n, s, sc, ec) ==
    [block_type |-> t, name |-> n, status |-> s, success_count |-> sc, error_count |-> ec]

BlockStatuses ==
    {BlockStatus(k[1], k[2], s, c[1], c[2]) :
        k \in BlockKeys, s \in Status, c \in CountPairs}

\* struct RunStatus
RunStatus(r, bs) == [run |-> r, blocks |-> bs]

----------------------------------------------------------------------------
(* Option<T> and serde_json::Value, as far as run.rs looks into them. *)

None == [some |-> FALSE]
Some(x) == [some |-> TRUE, v |-> x]

JNull == [kind |-> "Null"]
JString(s) == [kind |-> "String", s |-> s]
JArray(xs) == [kind |-> "Array", xs |-> xs]
\* Number(N::PosInt(n)), Number(N::NegInt(-n)), Number(N::Float(t / 10))
JPosInt(n) == [kind |-> "PosInt", n |-> n]
JNegInt(n) == [kind |-> "NegInt", n |-> n]
JFloat(t) == [kind |-> "Float", tenths |-> t]
\* Object(map): map is a function from its keys to values
JObject(map) == [kind |-> "Object", map |-> map]

NoFields == [k \in {} |-> JNull]
Field(k, v) == [x \in {k} |-> v]

\* Value::get(&str): a member of an object, None for every other value
Value_get(value, key) ==
    IF value.kind = "Object" /\ key \in DOMAIN value.map
    THEN Some(value.map[key])
    ELSE None

\* A variant that takes 0 for "not set".
Value_as_u64_Positive(value) ==
    IF value.kind = "PosInt" /\ value.n > 0 THEN Some(value.n) ELSE None

\* A variant that casts a fraction: as_f64 and `as u64`, which drops the part
\* after the point.
Value_as_u64_Cast(value) ==
    IF value.kind = "PosInt" THEN Some(value.n)
    ELSE IF value.kind = "Float" THEN Some(value.tenths \div 10) ELSE None

\* Value::as_u64: Some(n) for a number held as a non-negative integer only
Value_as_u64(value) ==
    IF value.kind = "PosInt" THEN Some(value.n) ELSE None

\* `concurrency as usize`: u64 to usize, which keeps the value where usize has
\* 64 bits (the targets dust builds for).
AsUsize(n) == n

----------------------------------------------------------------------------
(* struct RunConfig and impl RunConfig *)

RunConfig(blocks) == [blocks |-> blocks]

\* HashMap::get
config_for_block(self, name) ==
    IF name \in DOMAIN self.blocks THEN Some(self.blocks[name]) ELSE None

DefaultConcurrency(block_type) ==
    CASE block_type = "input"  -> 64
      [] block_type = "data"   -> 64
      [] block_type = "code"   -> 64
      [] block_type = "llm"    -> 8
      [] block_type = "map"    -> 64
      [] block_type = "reduce" -> 64

concurrency_for_block(self, block_type, name) ==
    LET block_config == config_for_block(self, name)
        field == IF block_config.some THEN Value_get(block_config.v, "concurrency") ELSE None
        as_u64 == IF field.some THEN Value_as_u64(field.v) ELSE None
    IN  IF as_u64.some THEN AsUsize(as_u64.v) ELSE DefaultConcurrency(block_type)

----------------------------------------------------------------------------
(* impl RunStatus *)

\* blocks.iter().position(|s| s.block_type == status.block_type && s.name == status.name):
\* the first matching index, 0 for None.
\* A variant that compares the name alone.
KeyMatches_NameOnly(s, status) == s.name = status.name

KeyMatches(s, status) == s.block_type = status.block_type /\ s.name = status.name

Position(blocks, status) ==
    LET hits == {i \in 1..Len(blocks) : KeyMatches(blocks[i], status)}
    IN  IF hits = {} THEN 0 ELSE CHOOSE i \in hits : \A j \in hits : i <= j

\* A variant that moves the entry it replaces to the end.
RunStatus_set_block_status_MoveToEnd(self, status) ==
    LET i == Position(self.blocks, status)
    IN  IF i # 0
        THEN [self EXCEPT !.blocks =
                 Append(SubSeq(@, 1, i - 1) \o SubSeq(@, i + 1, Len(@)), status)]
        ELSE [self EXCEPT !.blocks = Append(@, status)]

\* A variant that pushes without looking for the key.
RunStatus_set_block_status_Push(self, status) ==
    [self EXCEPT !.blocks = Append(@, status)]

RunStatus_set_block_status(self, status) ==
    LET i == Position(self.blocks, status)
    IN  IF i # 0
        THEN [self EXCEPT !.blocks[i] = status]
        ELSE [self EXCEPT !.blocks = Append(@, status)]

RunStatus_set_run_status(self, status) == [self EXCEPT !.run = status]

RunStatus_run_status(self) == self.run

----------------------------------------------------------------------------
(* impl Run *)

\* A variant that starts from a default configuration.
New_Default(app_hash, config, new_id, now) ==
    [run_id   |-> new_id,
     created  |-> now,
     app_hash |-> app_hash,
     config   |-> RunConfig(NoFields),
     status   |-> RunStatus("Running", <<>>),
     traces   |-> <<>>]

\* Run::new; run_id and created come from utils::new_id() and utils::now().
New(app_hash, config, new_id, now) ==
    [run_id   |-> new_id,
     created  |-> now,
     app_hash |-> app_hash,
     config   |-> config,
     status   |-> RunStatus("Running", <<>>),
     traces   |-> <<>>]

\* A variant that drops the stored block statuses.
NewFromStore_Reset(run_id, created, app_hash, config, status, traces) ==
    [run_id   |-> run_id,
     created  |-> created,
     app_hash |-> app_hash,
     config   |-> config,
     status   |-> RunStatus(status.run, <<>>),
     traces   |-> traces]

NewFromStore(run_id, created, app_hash, config, status, traces) ==
    [run_id   |-> run_id,
     created  |-> created,
     app_hash |-> app_hash,
     config   |-> config,
     status   |-> status,
     traces   |-> traces]

Run_run_id(self) == self.run_id
Run_created(self) == self.created
Run_app_hash(self) == self.app_hash
Run_config(self) == self.config
Run_status(self) == self.status

\* A variant that starts the run over with the status: its traces are dropped.
Run_set_status_Restart(self, status) ==
    [self EXCEPT !.status = status, !.traces = <<>>]

Run_set_status(self, status) == [self EXCEPT !.status = status]

\* A variant that validates the transition: a terminal status stays.
Run_set_run_status_Guarded(self, status) ==
    IF self.status.run = "Running" THEN [self EXCEPT !.status.run = status] ELSE self

Run_set_run_status(self, status) == [self EXCEPT !.status.run = status]

\* A variant that aggregates: a Succeeded block marks the run Succeeded.
Run_set_block_status_Eager(self, status) ==
    [self EXCEPT !.status =
        [RunStatus_set_block_status(@, status) EXCEPT
            !.run = IF status.status = "Succeeded" THEN "Succeeded" ELSE @]]

\* A variant that reopens the run whenever a block reports.
Run_set_block_status_Reopen(self, status) ==
    [self EXCEPT !.status =
        [RunStatus_set_block_status(@, status) EXCEPT !.run = "Running"]]

\* A variant that fails the run with its first errored block.
Run_set_block_status_Failing(self, status) ==
    [self EXCEPT !.status =
        LET written == RunStatus_set_block_status(@, status)
        IN  IF status.status = "Errored"
            THEN RunStatus_set_run_status(written, "Errored") ELSE written]

Run_set_block_status(self, status) ==
    [self EXCEPT !.status = RunStatus_set_block_status(@, status)]

----------------------------------------------------------------------------
(* struct BlockExecution and the trace matrix (Run.traces). *)

BlockExecution(value, error) == [value |-> value, error |-> error]

ExecValue == BlockExecution(Some(JString("a")), None)
ExecError == BlockExecution(None, Some("timeout"))
ExecSkipped == BlockExecution(None, None)
ExecBoth == BlockExecution(Some(JString("b")), Some("late"))

\* One entry of traces: ((BlockType, String), Vec<Vec<BlockExecution>>)
TraceEntry(t, n, inputs) == <<<<t, n>>, inputs>>

\* The example of the specification: one value lane, then one error lane.
GenTraces == <<TraceEntry("llm", "gen", << <<ExecValue>>, <<ExecError>> >>)>>

\* A matrix no driver writes: the same block twice, a lane with value and error.
OddTraces ==
    <<TraceEntry("llm", "gen", << <<ExecBoth>> >>), TraceEntry("llm", "gen", <<>>)>>

----------------------------------------------------------------------------
(* The arguments the calls are made with. *)

EmptyConfig == RunConfig(NoFields)
SummarizeConfig == RunConfig(Field("summarize", JObject(Field("concurrency", JPosInt(3)))))

AppHashes == {"h1", "h2"}
RunIds == {"r1", "r2"}
Times == {1, 2}
RunConfigs == {EmptyConfig, SummarizeConfig}
TraceMatrices == {<<>>, GenTraces, OddTraces}

\* The RunStatus values a store or a driver hands over; nothing validates them,
\* so some break what a driver would keep.
StatusFresh == RunStatus("Running", <<>>)
StatusDone == RunStatus("Succeeded", <<BlockStatus("llm", "a", "Succeeded", 1, 0)>>)
StatusBlockErrored == RunStatus("Running", <<BlockStatus("llm", "a", "Errored", 0, 1)>>)
StatusStillRunning == RunStatus("Succeeded", <<BlockStatus("code", "a", "Running", 1, 0)>>)
StatusTwice ==
    RunStatus("Errored", <<BlockStatus("llm", "a", "Running", 1, 0),
                           BlockStatus("llm", "a", "Succeeded", 0, 1)>>)

StoredStatuses ==
    {StatusFresh, StatusDone, StatusBlockErrored, StatusStillRunning, StatusTwice}

\* The few BlockStatus values SpecRun calls set_block_status with.
FewBlockStatuses ==
    {BlockStatus("llm", "a", "Succeeded", 1, 0), BlockStatus("code", "a", "Errored", 0, 1)}

----------------------------------------------------------------------------
(* The calls on a Run. *)

NotCalled == [called |-> FALSE]
Returned(n) == [called |-> TRUE, value |-> n]

Call(op, arg, from) == [op |-> op, arg |-> arg, from |-> from]

NoQuery == <<"-", "-">>
concIdle == cfg = EmptyConfig /\ query = NoQuery /\ result = NotCalled

restIdle ==
    /\ status_in = "-"
    /\ str_in = "-"
    /\ rendered = NotCalled
    /\ parsed = NotCalled
    /\ history = <<>>

Pending == [returned |-> FALSE]
inspIdle ==
    /\ store = <<>>
    /\ req = [run_id |-> "-", block_type |-> "-", block_name |-> "-"]
    /\ pc = "idle"
    /\ inspect_run_id = "-"
    /\ loaded = None
    /\ calls = <<>>
    /\ out = <<>>
    /\ ret = Pending

\* let run = Run::new(app_hash, config)
InitNew(H, C) ==
    \E app_hash \in H, config \in C, new_id \in RunIds, now \in Times :
        /\ run = New(app_hash, config, new_id, now)
        /\ last = Call("new", [app_hash |-> app_hash, config |-> config], "none")
        /\ origin = "new"

\* let run = Run::new_from_store(run_id, created, app_hash, &config, &status, traces)
InitFromStore(I, T, H, C, S, M) ==
    \E run_id \in I, created \in T, app_hash \in H, config \in C, status \in S, traces \in M :
        /\ run = NewFromStore(run_id, created, app_hash, config, status, traces)
        /\ last = Call("new_from_store",
                       [run_id |-> run_id, created |-> created, app_hash |-> app_hash,
                        config |-> config, status |-> status, traces |-> traces],
                       "none")
        /\ origin = "new_from_store"

\* run.set_status(status)
SetStatus(status) ==
    /\ run' = Run_set_status(run, status)
    /\ last' = Call("set_status", status, run.status.run)
    /\ UNCHANGED <<origin, concVars, inspVars, convVars, history>>

\* run.set_run_status(status)
SetRunStatus(status) ==
    /\ run' = Run_set_run_status(run, status)
    /\ last' = Call("set_run_status", status, run.status.run)
    /\ UNCHANGED <<origin, concVars, inspVars, convVars, history>>

\* run.set_block_status(status); the list is kept within MaxBlocks entries
SetBlockStatus(status) ==
    /\ Position(run.status.blocks, status) # 0 \/ Len(run.status.blocks) < MaxBlocks
    /\ run' = Run_set_block_status(run, status)
    /\ last' = Call("set_block_status", status, run.status.run)
    /\ UNCHANGED <<origin, concVars, inspVars, convVars, history>>

\* Spec: one Run, created either way, and every BlockStatus of the universe.
Init ==
    /\ \/ InitNew({"h1"}, {EmptyConfig})
       \/ InitFromStore({"r1"}, {1}, {"h1"}, {EmptyConfig}, StoredStatuses, {<<>>})
    /\ concIdle
    /\ inspIdle
    /\ restIdle

Next ==
    \/ \E status \in StoredStatuses : SetStatus(status)
    \/ \E status \in Status : SetRunStatus(status)
    \/ \E status \in BlockStatuses : SetBlockStatus(status)

Spec == Init /\ [][Next]_vars

\* SpecRun: the constructors over every combination of their arguments.
InitRun ==
    /\ \/ InitNew(AppHashes, RunConfigs)
       \/ InitFromStore(RunIds, Times, AppHashes, RunConfigs, StoredStatuses, TraceMatrices)
    /\ concIdle
    /\ inspIdle
    /\ restIdle

NextRun ==
    \/ \E status \in StoredStatuses : SetStatus(status)
    \/ \E status \in Status : SetRunStatus(status)
    \/ \E status \in FewBlockStatuses : SetBlockStatus(status)

SpecRun == InitRun /\ [][NextRun]_vars

----------------------------------------------------------------------------
(* SpecConcurrency: concurrency_for_block on every configuration of two names. *)

ConfigNames == {"summarize", "gen"}

Overrides == (0..MaxConcurrency) \cup {100}

\* what a block's configuration may hold under "concurrency"
ConcurrencyFields ==
    {JPosInt(n) : n \in Overrides}
        \cup {JNegInt(1), JFloat(25), JFloat(30), JString("4"), JNull}

\* the configuration blobs of a block: objects with and without the field, and
\* values that are no object
BlockConfigs ==
    {JObject(Field("concurrency", v)) : v \in ConcurrencyFields}
        \cup {JObject([k \in {"concurrency", "model"} |->
                          IF k = "model" THEN JString("m") ELSE JPosInt(2)]),
              JObject(NoFields),
              JObject(Field("model", JString("m"))),
              JPosInt(5), JString("concurrency"), JNull, JArray(<<JPosInt(2)>>)}

ConcurrencyConfigs ==
    {RunConfig(blocks) :
        blocks \in UNION {[names -> BlockConfigs] : names \in SUBSET ConfigNames}}

runIdle ==
    /\ run = New("h1", EmptyConfig, "r1", 1)
    /\ last = Call("none", "-", "none")
    /\ origin = "new"

InitConcurrency ==
    /\ cfg \in ConcurrencyConfigs
    /\ query \in BlockType \X ConfigNames
    /\ result = NotCalled
    /\ runIdle
    /\ inspIdle
    /\ restIdle

\* let n = cfg.concurrency_for_block(block_type, name)
Resolve ==
    /\ result = NotCalled
    /\ result' = Returned(concurrency_for_block(cfg, query[1], query[2]))
    /\ UNCHANGED <<runVars, cfg, query, inspVars, convVars, history>>

NextConcurrency == Resolve

SpecConcurrency == InitConcurrency /\ [][NextConcurrency]_vars

----------------------------------------------------------------------------
(* The store cmd_inspect reads: trait Store, as the specification gives it.  *)
(* A store is the sequence of the runs saved for the project, oldest first.  *)

\* latest_run_id(project): the id of the run created last, None without runs
Store_latest_run_id(runs) ==
    IF runs = <<>> THEN None ELSE Some(Run_run_id(runs[Len(runs)]))

\* the entries of traces that belong to the block (t, n), in order
RECURSIVE TracesOfBlock(_, _, _)
TracesOfBlock(traces, t, n) ==
    IF traces = <<>> THEN <<>>
    ELSE (IF Head(traces)[1] = <<t, n>> THEN <<Head(traces)>> ELSE <<>>)
             \o TracesOfBlock(Tail(traces), t, n)

\* load_run(project, run_id, Some(Some((t, n)))): no run with that id gives
\* None; the block is a hint, so a store may return the whole matrix or only
\* the block's entries.  The set of the values it may return.
Store_load_run(runs, id, t, n) ==
    IF \E i \in 1..Len(runs) : Run_run_id(runs[i]) = id
    THEN LET r == runs[CHOOSE i \in 1..Len(runs) : Run_run_id(runs[i]) = id]
         IN  {Some(r), Some([r EXCEPT !.traces = TracesOfBlock(@, t, n)])}
    ELSE {None}

----------------------------------------------------------------------------
(* cmd_inspect *)

RECURSIVE Concat(_)
Concat(seqs) == IF Len(seqs) = 0 THEN <<>> ELSE Head(seqs) \o Concat(Tail(seqs))

\* A variant that reports the error only of an execution without a value.
ExecutionReports_ElseIf(input_idx, inputs_len, map_idx, lanes_len, execution) ==
    <<[kind |-> "execution", input_idx |-> input_idx, inputs |-> inputs_len,
       map_idx |-> map_idx, lanes |-> lanes_len]>>
        \o (IF execution.value.some
            THEN <<[kind |-> "value", value |-> execution.value.v]>>
            ELSE IF execution.error.some
                 THEN <<[kind |-> "error", error |-> execution.error.v]>> ELSE <<>>)

\* the closure run on one execution: the info line, then the value, then the error
ExecutionReports(input_idx, inputs_len, map_idx, lanes_len, execution) ==
    <<[kind |-> "execution", input_idx |-> input_idx, inputs |-> inputs_len,
       map_idx |-> map_idx, lanes |-> lanes_len]>>
        \o (IF execution.value.some
            THEN <<[kind |-> "value", value |-> execution.value.v]>> ELSE <<>>)
        \o (IF execution.error.some
            THEN <<[kind |-> "error", error |-> execution.error.v]>> ELSE <<>>)

\* map_executions.iter().enumerate().for_each(..)
InputReports(input_idx, inputs_len, map_executions) ==
    Concat([m \in 1..Len(map_executions) |->
               ExecutionReports(input_idx, inputs_len, m - 1, Len(map_executions),
                                map_executions[m])])

\* the body of run.traces.iter().for_each(..) for one entry
EntryMatches(entry, block_type, block_name) ==
    entry[1][2] = block_name /\ entry[1][1] = block_type

EntryReports(entry, block_type, block_name) ==
    IF EntryMatches(entry, block_type, block_name)
    THEN Concat([i \in 1..Len(entry[2]) |-> InputReports(i - 1, Len(entry[2]), entry[2][i])])
    ELSE <<>>

TraceReports(traces, block_type, block_name) ==
    Concat([k \in 1..Len(traces) |-> EntryReports(traces[k], block_type, block_name)])

\* `found`: set by the closure run on an execution, so true when one ran
Found(traces, block_type, block_name) ==
    \E k \in 1..Len(traces) :
        /\ EntryMatches(traces[k], block_type, block_name)
        /\ \E i \in 1..Len(traces[k][2]) : Len(traces[k][2][i]) > 0

Ok == [returned |-> TRUE, ok |-> TRUE]
Err(error) == [returned |-> TRUE, ok |-> FALSE, error |-> error]

\* anyhow!("No run found, the app was never executed")
NoRunFound == [msg |-> "No run found, the app was never executed"]
\* anyhow!("Run with id {} not found", run_id)
RunNotFound(id) == [msg |-> "Run with id {} not found", run_id |-> id]
\* anyhow!("Block {} {} not found in run {}", block_type, block_name, run_id)
BlockNotFound(block_type, block_name, id) ==
    [msg |-> "Block {} {} not found in run {}", block_type |-> block_type,
     block_name |-> block_name, run_id |-> id]
\* an error of the store or of utils::init_check, passed on by `?`
Fault(op) == [msg |-> "fault", op |-> op]

Fail(error) ==
    /\ ret' = Err(error)
    /\ pc' = "done"

\* utils::init_check().await?, then SQLiteStore::new(..)?
InspectInitCheck ==
    /\ pc = "init_check"
    /\ \/ Fail(Fault("init_check"))
       \/ Fail(Fault("SQLiteStore::new"))
       \/ pc' = "init" /\ UNCHANGED ret
    /\ UNCHANGED <<store, req, inspect_run_id, loaded, calls, out>>
    /\ UNCHANGED <<runVars, concVars, convVars, history>>

\* store.init().await?, then `let mut run_id = run_id.to_string()` and the test
\* for "latest"
InspectInit ==
    /\ pc = "init"
    /\ \/ /\ calls' = Append(calls, [op |-> "init", fault |-> TRUE])
          /\ Fail(Fault("init"))
          /\ UNCHANGED inspect_run_id
       \/ /\ calls' = Append(calls, [op |-> "init", fault |-> FALSE])
          /\ inspect_run_id' = req.run_id
          /\ pc' = IF req.run_id = "latest" THEN "latest_run_id" ELSE "load_run"
          /\ UNCHANGED ret
    /\ UNCHANGED <<store, req, loaded, out>>
    /\ UNCHANGED <<runVars, concVars, convVars, history>>

\* A variant that takes a failed lookup for a store without runs.
InspectLatestRunId_Masked ==
    /\ pc = "latest_run_id"
    /\ \/ /\ calls' = Append(calls, [op |-> "latest_run_id", fault |-> TRUE])
          /\ Fail(NoRunFound)
          /\ UNCHANGED <<inspect_run_id, out>>
       \/ LET latest == Store_latest_run_id(store)
          IN  /\ calls' = Append(calls, [op |-> "latest_run_id", fault |-> FALSE,
                                         returned |-> latest])
              /\ IF latest.some
                 THEN /\ inspect_run_id' = latest.v
                      /\ out' = Append(out, [kind |-> "latest", run_id |-> latest.v])
                      /\ pc' = "load_run"
                      /\ UNCHANGED ret
                 ELSE /\ Fail(NoRunFound)
                      /\ UNCHANGED <<inspect_run_id, out>>
    /\ UNCHANGED <<store, req, loaded>>
    /\ UNCHANGED <<runVars, concVars, convVars, history>>

\* store.latest_run_id(&project).await? and the match on it
InspectLatestRunId ==
    /\ pc = "latest_run_id"
    /\ \/ /\ calls' = Append(calls, [op |-> "latest_run_id", fault |-> TRUE])
          /\ Fail(Fault("latest_run_id"))
          /\ UNCHANGED <<inspect_run_id, out>>
       \/ LET latest == Store_latest_run_id(store)
          IN  /\ calls' = Append(calls, [op |-> "latest_run_id", fault |-> FALSE,
                                         returned |-> latest])
              /\ IF latest.some
                 THEN /\ inspect_run_id' = latest.v
                      /\ out' = Append(out, [kind |-> "latest", run_id |-> latest.v])
                      /\ pc' = "load_run"
                      /\ UNCHANGED ret
                 ELSE /\ Fail(NoRunFound)
                      /\ UNCHANGED <<inspect_run_id, out>>
    /\ UNCHANGED <<store, req, loaded>>
    /\ UNCHANGED <<runVars, concVars, convVars, history>>

\* A variant that loads the run under the id it was given.
InspectLoadRun_GivenId ==
    /\ pc = "load_run"
    /\ \/ /\ calls' = Append(calls, [op |-> "load_run", fault |-> TRUE,
                                    run_id |-> req.run_id,
                                    block |-> <<req.block_type, req.block_name>>])
          /\ Fail(Fault("load_run"))
          /\ UNCHANGED <<loaded, out>>
       \/ \E r \in Store_load_run(store, req.run_id, req.block_type, req.block_name) :
              /\ calls' = Append(calls, [op |-> "load_run", fault |-> FALSE,
                                        run_id |-> req.run_id,
                                        block |-> <<req.block_type, req.block_name>>,
                                        returned |-> r])
              /\ loaded' = r
              /\ IF r.some
                 THEN /\ out' = out \o TraceReports(r.v.traces, req.block_type, req.block_name)
                      /\ IF Found(r.v.traces, req.block_type, req.block_name)
                         THEN ret' = Ok /\ pc' = "done"
                         ELSE Fail(BlockNotFound(req.block_type, req.block_name, req.run_id))
                 ELSE /\ Fail(RunNotFound(req.run_id))
                      /\ UNCHANGED out
    /\ UNCHANGED <<store, req, inspect_run_id>>
    /\ UNCHANGED <<runVars, concVars, convVars, history>>

\* A variant that saves the run it loaded back under its id.
InspectLoadRun_Saving ==
    /\ pc = "load_run"
    /\ \/ /\ calls' = Append(calls, [op |-> "load_run", fault |-> TRUE,
                                    run_id |-> inspect_run_id,
                                    block |-> <<req.block_type, req.block_name>>])
          /\ Fail(Fault("load_run"))
          /\ UNCHANGED <<loaded, out, store>>
       \/ \E r \in Store_load_run(store, inspect_run_id, req.block_type, req.block_name) :
              /\ calls' = Append(calls, [op |-> "load_run", fault |-> FALSE,
                                        run_id |-> inspect_run_id,
                                        block |-> <<req.block_type, req.block_name>>,
                                        returned |-> r])
              /\ loaded' = r
              /\ IF r.some
                 THEN /\ out' = out \o TraceReports(r.v.traces, req.block_type, req.block_name)
                      /\ store' = [i \in 1..Len(store) |->
                                      IF Run_run_id(store[i]) = inspect_run_id
                                      THEN r.v ELSE store[i]]
                      /\ IF Found(r.v.traces, req.block_type, req.block_name)
                         THEN ret' = Ok /\ pc' = "done"
                         ELSE Fail(BlockNotFound(req.block_type, req.block_name, inspect_run_id))
                 ELSE /\ Fail(RunNotFound(inspect_run_id))
                      /\ UNCHANGED <<out, store>>
    /\ UNCHANGED <<req, inspect_run_id>>
    /\ UNCHANGED <<runVars, concVars, convVars, history>>

\* store.load_run(&project, &run_id, Some(Some((block_type, block_name)))).await?,
\* the match on it, the scan of run.traces and the test of `found`
InspectLoadRun ==
    /\ pc = "load_run"
    /\ \/ /\ calls' = Append(calls, [op |-> "load_run", fault |-> TRUE,
                                    run_id |-> inspect_run_id,
                                    block |-> <<req.block_type, req.block_name>>])
          /\ Fail(Fault("load_run"))
          /\ UNCHANGED <<loaded, out>>
       \/ \E r \in Store_load_run(store, inspect_run_id, req.block_type, req.block_name) :
              /\ calls' = Append(calls, [op |-> "load_run", fault |-> FALSE,
                                        run_id |-> inspect_run_id,
                                        block |-> <<req.block_type, req.block_name>>,
                                        returned |-> r])
              /\ loaded' = r
              /\ IF r.some
                 THEN /\ out' = out \o TraceReports(r.v.traces, req.block_type, req.block_name)
                      /\ IF Found(r.v.traces, req.block_type, req.block_name)
                         THEN ret' = Ok /\ pc' = "done"
                         ELSE Fail(BlockNotFound(req.block_type, req.block_name, inspect_run_id))
                 ELSE /\ Fail(RunNotFound(inspect_run_id))
                      /\ UNCHANGED out
    /\ UNCHANGED <<store, req, inspect_run_id>>
    /\ UNCHANGED <<runVars, concVars, convVars, history>>

\* The stores and the requests cmd_inspect is run on.
ExecutionMatrices ==
    {<<>>,
     << <<>>, <<>> >>,
     << <<ExecValue>>, <<ExecError>> >>,
     << <<ExecSkipped, ExecBoth>>, <<>>, <<ExecError, ExecValue>> >>}

TraceKeys == {<<"llm", "gen">>, <<"code", "gen">>, <<"llm", "sum">>}

TraceEntries == {TraceEntry(k[1], k[2], m) : k \in TraceKeys, m \in ExecutionMatrices}

StoredTraces == UNION {[1..n -> TraceEntries] : n \in 0..MaxTraceLen}

StoredRun(id, created, traces) ==
    NewFromStore(id, created, "h1", EmptyConfig, StatusFresh, traces)

Stores ==
    {<<>>}
        \cup {<<StoredRun("r1", 1, t)>> : t \in StoredTraces}
        \cup {<<StoredRun("r1", 1, t), StoredRun("r2", 2, GenTraces)>> : t \in StoredTraces}
        \cup {<<StoredRun("r2", 1, GenTraces), StoredRun("r1", 2, t)>> : t \in StoredTraces}

Requests ==
    [run_id : {"latest", "r1", "r9"}, block_type : {"llm", "code"}, block_name : {"gen"}]

InitInspect ==
    /\ store \in Stores
    /\ req \in Requests
    /\ pc = "init_check"
    /\ inspect_run_id = "-"
    /\ loaded = None
    /\ calls = <<>>
    /\ out = <<>>
    /\ ret = Pending
    /\ runIdle
    /\ concIdle
    /\ restIdle

NextInspect ==
    \/ InspectInitCheck
    \/ InspectInit
    \/ InspectLatestRunId
    \/ InspectLoadRun

SpecInspect == InitInspect /\ [][NextInspect]_vars

----------------------------------------------------------------------------
(* cmd_list *)

\* all_runs(project): one (run_id, created, app_hash, config) per saved run,
\* in the order the store keeps, newest first or oldest first.  The set of the
\* values it may return.
Store_all_runs(runs) ==
    {[i \in 1..Len(runs) |->
         <<Run_run_id(runs[i]), Run_created(runs[i]), Run_app_hash(runs[i]),
           Run_config(runs[i])>>],
     [i \in 1..Len(runs) |->
         LET r == runs[Len(runs) + 1 - i]
         IN  <<Run_run_id(r), Run_created(r), Run_app_hash(r), Run_config(r)>>]}

\* utils::utc_date_from(created): the date of a timestamp, as text
utc_date_from(created) == <<"utc", created>>

\* the closure run on one tuple of all_runs: the info line, without the config
RunReport(tuple) ==
    [kind |-> "run", run_id |-> tuple[1], app_hash |-> tuple[3],
     created |-> utc_date_from(tuple[2])]

\* utils::init_check().await?, then SQLiteStore::new(..)?
ListInitCheck ==
    /\ pc = "list_init_check"
    /\ \/ Fail(Fault("init_check"))
       \/ Fail(Fault("SQLiteStore::new"))
       \/ pc' = "list_init" /\ UNCHANGED ret
    /\ UNCHANGED <<store, req, inspect_run_id, loaded, calls, out>>
    /\ UNCHANGED <<runVars, concVars, convVars, history>>

\* store.init().await?
ListInit ==
    /\ pc = "list_init"
    /\ \/ /\ calls' = Append(calls, [op |-> "init", fault |-> TRUE])
          /\ Fail(Fault("init"))
       \/ /\ calls' = Append(calls, [op |-> "init", fault |-> FALSE])
          /\ pc' = "all_runs"
          /\ UNCHANGED ret
    /\ UNCHANGED <<store, req, inspect_run_id, loaded, out>>
    /\ UNCHANGED <<runVars, concVars, convVars, history>>

\* store.all_runs(&project).await?.iter().for_each(..), then Ok(())
ListAllRuns ==
    /\ pc = "all_runs"
    /\ \/ /\ calls' = Append(calls, [op |-> "all_runs", fault |-> TRUE])
          /\ Fail(Fault("all_runs"))
          /\ UNCHANGED out
       \/ \E runs \in Store_all_runs(store) :
              /\ calls' = Append(calls, [op |-> "all_runs", fault |-> FALSE,
                                        returned |-> runs])
              /\ out' = out \o [i \in 1..Len(runs) |-> RunReport(runs[i])]
              /\ ret' = Ok
              /\ pc' = "done"
    /\ UNCHANGED <<store, req, inspect_run_id, loaded>>
    /\ UNCHANGED <<runVars, concVars, convVars, history>>

\* cmd_list takes no argument
NoRequest == [run_id |-> "-", block_type |-> "-", block_name |-> "-"]

\* One command of the two is run on a store.
InitCommands ==
    /\ store \in Stores
    /\ \/ req \in Requests /\ pc = "init_check"
       \/ req = NoRequest /\ pc = "list_init_check"
    /\ inspect_run_id = "-"
    /\ loaded = None
    /\ calls = <<>>
    /\ out = <<>>
    /\ ret = Pending
    /\ runIdle
    /\ concIdle
    /\ restIdle

NextCommands ==
    \/ InspectInitCheck
    \/ InspectInit
    \/ InspectLatestRunId
    \/ InspectLoadRun
    \/ ListInitCheck
    \/ ListInit
    \/ ListAllRuns

SpecCommands == InitCommands /\ [][NextCommands]_vars

----------------------------------------------------------------------------
(* A run made by Run::new and given block statuses only. *)

\* run.set_block_status(status), the argument kept in history
RecordBlockStatus(status) ==
    /\ Len(history) < MaxCalls
    /\ run' = Run_set_block_status(run, status)
    /\ last' = Call("set_block_status", status, run.status.run)
    /\ history' = Append(history, status)
    /\ UNCHANGED <<origin, concVars, inspVars, convVars>>

InitOrder ==
    /\ runIdle
    /\ concIdle
    /\ inspIdle
    /\ restIdle

NextOrder == \E status \in BlockStatuses : RecordBlockStatus(status)

SpecOrder == InitOrder /\ [][NextOrder]_vars

----------------------------------------------------------------------------
(* impl ToString for Status, impl FromStr for Status *)

OkOf(v) == [returned |-> TRUE, ok |-> TRUE, v |-> v]

\* utils::ParseError::with_message("Unknown Status")
ParseError == [msg |-> "Unknown Status"]

\* Status::to_string: the match on self
Status_to_string(self) ==
    CASE self = "Running" -> "running"
      [] self = "Succeeded" -> "succeeded"
      [] self = "Errored" -> "errored"

\* A variant that takes a string it does not know for "running".
Status_from_str_Lenient(s) ==
    CASE s = "running" -> OkOf("Running")
      [] s = "succeeded" -> OkOf("Succeeded")
      [] s = "errored" -> OkOf("Errored")
      [] OTHER -> OkOf("Running")

\* Status::from_str: the match on s
Status_from_str(s) ==
    CASE s = "running" -> OkOf("Running")
      [] s = "succeeded" -> OkOf("Succeeded")
      [] s = "errored" -> OkOf("Errored")
      [] OTHER -> Err(ParseError)

\* The strings from_str is given: the three renderings and near misses.
StatusStrings ==
    {"running", "succeeded", "errored", "Running", "Succeeded", "Errored",
     "RUNNING", "", " running", "running ", "error", "success", "failed",
     "pending", "done", "run"}

\* status.to_string()
CallToString ==
    /\ ~rendered.called
    /\ rendered' = Returned(Status_to_string(status_in))
    /\ UNCHANGED <<status_in, str_in, parsed, history>>
    /\ UNCHANGED <<runVars, concVars, inspVars>>

\* Status::from_str(s)
CallFromStr ==
    /\ ~parsed.called
    /\ parsed' = Returned(Status_from_str(str_in))
    /\ UNCHANGED <<status_in, str_in, rendered, history>>
    /\ UNCHANGED <<runVars, concVars, inspVars>>

\* Status::from_str(&status.to_string())
CallFromStrOfString ==
    /\ rendered.called
    /\ str_in # rendered.value
    /\ str_in' = rendered.value
    /\ parsed' = Returned(Status_from_str(rendered.value))
    /\ UNCHANGED <<status_in, rendered, history>>
    /\ UNCHANGED <<runVars, concVars, inspVars>>

InitStatus ==
    /\ status_in \in Status
    /\ str_in \in StatusStrings
    /\ rendered = NotCalled
    /\ parsed = NotCalled
    /\ history = <<>>
    /\ runIdle
    /\ concIdle
    /\ inspIdle

NextStatus ==
    \/ CallToString
    \/ CallFromStr
    \/ CallFromStrOfString

SpecStatus == InitStatus /\ [][NextStatus]_vars

----------------------------------------------------------------------------
(* What the claims speak of. *)

Key(b) == <<b.block_type, b.name>>

\* the indices of the entries of blocks with key k
Holders(blocks, k) == {i \in 1..Len(blocks) : Key(blocks[i]) = k}

UniqueKeys(blocks) ==
    \A i, j \in 1..Len(blocks) : Key(blocks[i]) = Key(blocks[j]) => i = j

Terminal == {"Succeeded", "Errored"}

\* the relation of the run-level status to the block statuses
Aggregated(status) ==
    /\ (\E i \in 1..Len(status.blocks) : status.blocks[i].status = "Errored")
           => status.run = "Errored"
    /\ status.run = "Succeeded"
           => \A i \in 1..Len(status.blocks) : status.blocks[i].status # "Running"

----------------------------------------------------------------------------
(* C2 *)

\* the step is set_block_status(b) and replaces the entry at index i alone
ReplacedAt(i, b) ==
    /\ Len(run'.status.blocks) = Len(run.status.blocks)
    /\ run'.status.blocks[i] = b
    /\ \A j \in 1..Len(run.status.blocks) :
           j # i => run'.status.blocks[j] = run.status.blocks[j]

\* ... or appends it, every entry before it staying
Appended(b) ==
    /\ Len(run'.status.blocks) = Len(run.status.blocks) + 1
    /\ run'.status.blocks[Len(run'.status.blocks)] = b
    /\ \A j \in 1..Len(run.status.blocks) : run'.status.blocks[j] = run.status.blocks[j]

\* two calls in a row with the same key leave one entry for it, the second's
TwiceLeavesOne ==
    (/\ last.op = "set_block_status"
     /\ last'.op = "set_block_status"
     /\ Key(last.arg) = Key(last'.arg))
    => LET held == Holders(run'.status.blocks, Key(last'.arg))
       IN  Cardinality(held) = 1 /\ \A i \in held : run'.status.blocks[i] = last'.arg

UpsertStep ==
    last'.op = "set_block_status" =>
        LET b == last'.arg
            held == Holders(run.status.blocks, Key(b))
        IN  IF held # {} THEN \E i \in held : ReplacedAt(i, b) ELSE Appended(b)

UpsertFirstStep ==
    last'.op = "set_block_status" =>
        LET b == last'.arg
            held == Holders(run.status.blocks, Key(b))
        IN  IF held # {}
            THEN \E i \in held : (\A j \in held : i <= j) /\ ReplacedAt(i, b)
            ELSE Appended(b)

\* C2 as claimed: set_block_status(b) replaces the entry with b's key in place
\* or appends b, moving nothing else, and so two calls with one key leave
\* exactly one entry for that key, with the second call's values.
C2_UpsertLeavesOneEntry == [][UpsertStep /\ TwiceLeavesOne]_vars

\* C2 as amended: set_block_status(b) replaces the first entry with b's key in
\* place or appends b, moving nothing else; two calls with one key leave exactly
\* one entry for it, the second's, on a ledger that held at most one entry for
\* that key, and on a ledger that held several all but the first stay.
C2_UpsertFirstEntry ==
    [][/\ UpsertFirstStep
       /\ (/\ last'.op = "set_block_status"
           /\ Cardinality(Holders(run.status.blocks, Key(last'.arg))) <= 1) => TwiceLeavesOne
      ]_vars

\* C2's case: the call replaced the first of two entries, the second is another block's
C2_Witness ==
    /\ last.op = "set_block_status"
    /\ Len(run.status.blocks) = 2
    /\ run.status.blocks[1] = last.arg
    /\ Key(run.status.blocks[2]) # Key(last.arg)

----------------------------------------------------------------------------
(* C3 *)

\* C3 as claimed: the block-status list never holds two entries with one key.
C3_OneEntryPerKey == UniqueKeys(run.status.blocks)

C3_Step ==
    /\ (last'.op \in {"set_block_status", "set_run_status"} /\ UniqueKeys(run.status.blocks))
           => UniqueKeys(run'.status.blocks)
    /\ last'.op = "set_status"
           => (UniqueKeys(run'.status.blocks) <=> UniqueKeys(last'.arg.blocks))

\* C3 as amended: a Run made by Run::new holds at most one entry per key,
\* set_block_status and set_run_status never add a second entry for a key,
\* and after new_from_store or set_status the list holds a key twice exactly
\* when the RunStatus handed over does.
C3_OneEntryPerKeyUnlessHandedOver ==
    /\ last.op = "new" => UniqueKeys(run.status.blocks)
    /\ last.op = "new_from_store"
           => (UniqueKeys(run.status.blocks) <=> UniqueKeys(last.arg.status.blocks))
    /\ [][C3_Step]_vars

\* C3's case: two blocks reported to a fresh Run, one of them twice
C3_Witness ==
    /\ origin = "new"
    /\ last.op = "set_block_status"
    /\ Len(run.status.blocks) = 2
    /\ run.status.blocks[1] = last.arg
    /\ UniqueKeys(run.status.blocks)

----------------------------------------------------------------------------
(* C4 *)

\* C4 as claimed: in every state reached from a fresh Run, an Errored block
\* means an Errored run, and a Succeeded run has no Running block.
C4_RunStatusAggregates == origin = "new" => Aggregated(run.status)

\* the argument of the call agrees with the relation
Agrees ==
    CASE last'.op = "set_block_status" ->
            /\ last'.arg.status = "Errored" => run.status.run = "Errored"
            /\ last'.arg.status = "Running" => run.status.run # "Succeeded"
      [] last'.op = "set_run_status" ->
            Aggregated(RunStatus(last'.arg, run.status.blocks))
      [] last'.op = "set_status" -> Aggregated(last'.arg)
      [] OTHER -> TRUE

\* C4 as amended: the relation holds of a fresh Run, and a mutator call on a
\* Run that satisfies it keeps it exactly when the argument agrees with it
\* (an Errored block only on an Errored run, a Running block only on a run not
\* Succeeded, a run-level status or a RunStatus that fits the blocks); the Run
\* neither checks nor repairs it.
C4_AggregationIsTheCallers ==
    /\ last.op = "new" => Aggregated(run.status)
    /\ [][Aggregated(run.status) => (Aggregated(run'.status) <=> Agrees)]_vars

\* C4's case: on a fresh Run marked Errored, a block is reported Errored
C4_Witness ==
    /\ origin = "new"
    /\ last.op = "set_block_status"
    /\ last.arg.status = "Errored"
    /\ last.from = "Errored"
    /\ Aggregated(run.status)

----------------------------------------------------------------------------
(* C5 *)

\* C5 as claimed: once the run-level status is Succeeded or Errored, no call
\* makes it Running.
C5_TerminalIsAbsorbing ==
    [][run.status.run \in Terminal => run'.status.run # "Running"]_vars

\* C5 as amended: set_block_status never changes a terminal run-level status,
\* and after Succeeded or Errored the status is Running again only through
\* set_run_status(Running) or a set_status whose RunStatus says Running, which
\* the Run accepts without validation.
C5_TerminalUnlessOverwritten ==
    [][(run.status.run \in Terminal /\ run'.status.run = "Running")
          => \/ last'.op = "set_run_status" /\ last'.arg = "Running"
             \/ last'.op = "set_status" /\ last'.arg.run = "Running"]_vars

\* C5's case: a block reports Running to a Succeeded run, which stays Succeeded
C5_Witness ==
    /\ last.op = "set_block_status"
    /\ last.arg.status = "Running"
    /\ last.from = "Succeeded"
    /\ run.status.run = "Succeeded"

----------------------------------------------------------------------------
(* C6 *)

\* C6: Run::new(app_hash, config) gives a Run that is Running, with no block
\* status and no trace, whose app_hash and config are the arguments.
C6_FreshRun ==
    last.op = "new" =>
        /\ RunStatus_run_status(Run_status(run)) = "Running"
        /\ Run_status(run).blocks = <<>>
        /\ run.traces = <<>>
        /\ Run_app_hash(run) = last.arg.app_hash
        /\ Run_config(run) = last.arg.config

\* C6's case: a Run made by Run::new from the second hash and a configuration with an entry
C6_Witness ==
    /\ last.op = "new"
    /\ last.arg.app_hash = "h2"
    /\ last.arg.config = SummarizeConfig
    /\ run.run_id = "r2"

----------------------------------------------------------------------------
(* C7 *)

\* C7: Run::new_from_store returns a Run whose run_id, created, app_hash,
\* config, status and traces are the six arguments, whatever they are.
C7_FromStoreRoundTrip ==
    last.op = "new_from_store" =>
        /\ Run_run_id(run) = last.arg.run_id
        /\ Run_created(run) = last.arg.created
        /\ Run_app_hash(run) = last.arg.app_hash
        /\ Run_config(run) = last.arg.config
        /\ Run_status(run) = last.arg.status
        /\ run.traces = last.arg.traces

\* C7's case: a stored Run whose status holds a key twice and whose traces no driver writes
C7_Witness ==
    /\ last.op = "new_from_store"
    /\ last.arg.status = StatusTwice
    /\ last.arg.traces = OddTraces
    /\ last.arg.run_id = "r2"
    /\ last.arg.created = 2

----------------------------------------------------------------------------
(* C8 *)

\* C8: set_run_status(s) makes run_status() return s from every prior status
\* and leaves the block statuses alone; Run::set_run_status and
\* RunStatus::set_run_status change the ledger alike.
C8_SetRunStatusOverwrites ==
    [][/\ last'.op = "set_run_status" =>
              /\ RunStatus_run_status(Run_status(run')) = last'.arg
              /\ Run_status(run').blocks = Run_status(run).blocks
       /\ \A s \in Status :
              Run_status(Run_set_run_status(run, s)) = RunStatus_set_run_status(Run_status(run), s)
      ]_vars

\* C8's case: a Succeeded run with a block status is set back to Running
C8_Witness ==
    /\ last.op = "set_run_status"
    /\ last.from = "Succeeded"
    /\ last.arg = "Running"
    /\ run.status.run = "Running"
    /\ Len(run.status.blocks) > 0

----------------------------------------------------------------------------
(* C1 *)

\* the table of defaults, as the specification gives it
DefaultTable ==
    [t \in BlockType |-> IF t = "llm" THEN 8 ELSE 64]

\* the block's entry is an object whose "concurrency" is the integer n >= 0
Overridden(config, name, n) ==
    /\ name \in DOMAIN config.blocks
    /\ config.blocks[name].kind = "Object"
    /\ "concurrency" \in DOMAIN config.blocks[name].map
    /\ config.blocks[name].map["concurrency"] = JPosInt(n)

\* C1: for a name with no entry the result is the default of the block type
\* (LLM 8, every other type 64); for a name whose entry carries the integer
\* "concurrency" = N >= 0, 0 included, it is N for every block type.
C1_DefaultOrOverride ==
    result.called =>
        /\ query[2] \notin DOMAIN cfg.blocks => result.value = DefaultTable[query[1]]
        /\ \A n \in Overrides : Overridden(cfg, query[2], n) => result.value = n

\* C1's case: an LLM block whose entry sets "concurrency" to 0, beside another entry
C1_Witness ==
    /\ result.called
    /\ query = <<"llm", "summarize">>
    /\ Overridden(cfg, "summarize", 0)
    /\ "gen" \in DOMAIN cfg.blocks
    /\ result.value = 0

----------------------------------------------------------------------------
(* C9 *)

\* the matrix of the loaded run holds an entry for the block asked for
HasEntry(traces, block_type, block_name) ==
    \E k \in 1..Len(traces) : traces[k][1] = <<block_type, block_name>>

\* C9 as claimed: inspecting a block of a loaded run fails with the
\* block-not-found error, naming type, name and run id, exactly when the trace
\* matrix has no entry with that (block_type, name); with an entry, even one
\* with no input or no lane, it succeeds.
C9_NotFoundIffNoEntry ==
    (pc = "done" /\ loaded.some) =>
        IF HasEntry(loaded.v.traces, req.block_type, req.block_name)
        THEN ret = Ok
        ELSE ret = Err(BlockNotFound(req.block_type, req.block_name, inspect_run_id))

----------------------------------------------------------------------------
(* C10 *)

CallsOf(op) == {i \in 1..Len(calls) : calls[i].op = op}

\* C10: for "latest", latest_run_id is asked before load_run and load_run gets
\* the id it returned; when it returns no id the command fails with the
\* no-run error, without load_run and without a report; when load_run returns
\* no run the command fails with the run-not-found error of that id; for any
\* other id latest_run_id is never asked and load_run gets the id given.
C10_LatestResolvedBeforeLoad ==
    /\ req.run_id # "latest" => CallsOf("latest_run_id") = {}
    /\ \A i \in CallsOf("load_run") :
           IF req.run_id = "latest"
           THEN \E j \in CallsOf("latest_run_id") :
                    /\ j < i
                    /\ ~calls[j].fault
                    /\ calls[j].returned = Some(calls[i].run_id)
           ELSE calls[i].run_id = req.run_id
    /\ \A j \in CallsOf("latest_run_id") :
           (~calls[j].fault /\ ~calls[j].returned.some) =>
               /\ ret = Err(NoRunFound)
               /\ CallsOf("load_run") = {}
               /\ out = <<>>
    /\ \A i \in CallsOf("load_run") :
           (~calls[i].fault /\ ~calls[i].returned.some) =>
               ret = Err(RunNotFound(calls[i].run_id))

\* C10's case: "latest" resolved to the younger of two runs, which was loaded and reported
C10_Witness ==
    /\ pc = "done"
    /\ req.run_id = "latest"
    /\ Len(store) = 2
    /\ \E i \in CallsOf("load_run") :
           calls[i].run_id = "r2" /\ ~calls[i].fault /\ calls[i].returned.some
    /\ ret = Ok

\* the messages of the three errors that say a run or a block is missing
NotFoundMessages ==
    {NoRunFound.msg, RunNotFound("-").msg, BlockNotFound("-", "-", "-").msg}

\* the kinds of the lines that report an execution or a run
ResultKinds == {"execution", "value", "error", "run"}

\* C11: a store operation (init, latest_run_id, load_run, all_runs) that fails
\* ends the command: the command returns that very error, which is none of the
\* not-found errors, the failed call is the last call made to the store, no
\* store operation is called twice, no run is loaded and no execution or run
\* is reported.
C11_StoreFaultsPropagate ==
    \A i \in 1..Len(calls) :
        /\ \A j \in 1..Len(calls) : calls[j].op = calls[i].op => j = i
        /\ calls[i].fault =>
               /\ i = Len(calls)
               /\ pc = "done"
               /\ ret = Err(Fault(calls[i].op))
               /\ ret.error.msg \notin NotFoundMessages
               /\ loaded = None
               /\ \A k \in 1..Len(out) : out[k].kind \notin ResultKinds

C11_Witness ==
    /\ req.run_id = "latest"
    /\ Len(store) = 2
    /\ Len(calls) = 3
    /\ calls[2].op = "latest_run_id" /\ ~calls[2].fault
    /\ calls[3].op = "load_run" /\ calls[3].fault
    /\ out = <<[kind |-> "latest", run_id |-> "r2"]>>
    /\ ret = Err(Fault("load_run"))

\* the cells <<entry, input, lane>> of the entries of traces with key (t, n)
Cells(traces, t, n) ==
    UNION {UNION {{<<k, i, j>> : j \in 1..Len(traces[k][2][i])} :
                     i \in 1..Len(traces[k][2])} :
              k \in {e \in 1..Len(traces) : traces[e][1] = <<t, n>>}}

\* c comes before d: by entry, then by input, then by lane
Before(c, d) ==
    \/ c[1] < d[1]
    \/ c[1] = d[1] /\ c[2] < d[2]
    \/ c[1] = d[1] /\ c[2] = d[2] /\ c[3] < d[3]

\* the positions of the lines of kind k in the report
LinesOf(k) == {p \in 1..Len(out) : out[p].kind = k}

\* the cell the execution line at position p stands for: as many cells come
\* before it as execution lines come before p
CellOfLine(cells, p) ==
    CHOOSE c \in cells :
        Cardinality({d \in cells : Before(d, c)})
            = Cardinality({q \in LinesOf("execution") : q < p})

\* C12: once cmd_inspect has scanned a loaded run, the report holds one
\* execution line per cell of the matching entry, in increasing input and
\* then lane order, each tagged with its input index, input count, lane index
\* and lane count; the value line follows exactly when the cell holds a value,
\* the error line exactly when it holds an error, and nothing else is printed.
\* For the specification's example the report is one value at (0, 0) and one
\* error at (1, 0).
C12_PerLaneReport ==
    (pc = "done" /\ loaded.some) =>
        LET traces == loaded.v.traces
            cells == Cells(traces, req.block_type, req.block_name)
            exec(c) == traces[c[1]][2][c[2]][c[3]]
        IN  /\ Cardinality(LinesOf("execution")) = Cardinality(cells)
            /\ Cardinality(LinesOf("value"))
                   = Cardinality({c \in cells : exec(c).value.some})
            /\ Cardinality(LinesOf("error"))
                   = Cardinality({c \in cells : exec(c).error.some})
            /\ Len(out) = Cardinality(LinesOf("latest") \cup LinesOf("execution")
                                          \cup LinesOf("value") \cup LinesOf("error"))
            /\ \A p \in LinesOf("execution") :
                   LET c == CellOfLine(cells, p)
                       vAt == p + 1
                       eAt == IF exec(c).value.some THEN p + 2 ELSE p + 1
                   IN  /\ out[p].input_idx = c[2] - 1
                       /\ out[p].inputs = Len(traces[c[1]][2])
                       /\ out[p].map_idx = c[3] - 1
                       /\ out[p].lanes = Len(traces[c[1]][2][c[2]])
                       /\ exec(c).value.some =>
                              /\ vAt \in LinesOf("value")
                              /\ out[vAt].value = exec(c).value.v
                       /\ exec(c).error.some =>
                              /\ eAt \in LinesOf("error")
                              /\ out[eAt].error = exec(c).error.v
            /\ (traces = GenTraces /\ req.block_type = "llm" /\ req.run_id # "latest") =>
                   out = <<[kind |-> "execution", input_idx |-> 0, inputs |-> 2,
                            map_idx |-> 0, lanes |-> 1],
                           [kind |-> "value", value |-> JString("a")],
                           [kind |-> "execution", input_idx |-> 1, inputs |-> 2,
                            map_idx |-> 0, lanes |-> 1],
                           [kind |-> "error", error |-> "timeout"]>>

C12_Witness ==
    /\ pc = "done"
    /\ ret = Ok
    /\ loaded.some
    /\ req.block_type = "llm"
    /\ Len(loaded.v.traces) = 2
    /\ loaded.v.traces[2]
           = TraceEntry("llm", "gen",
                        << <<ExecSkipped, ExecBoth>>, <<>>, <<ExecError, ExecValue>> >>)
    /\ Cardinality(LinesOf("execution")) = 4
    /\ Cardinality(LinesOf("value")) = 2
    /\ Cardinality(LinesOf("error")) = 2

\* the rendering of each Status, as the specification lists it
RenderTable ==
    [Running |-> "running", Succeeded |-> "succeeded", Errored |-> "errored"]

\* C13: to_string gives every Status its lower-case name; from_str of a
\* rendering gives back the Status rendered, so parsing what to_string
\* returned gives the Status it was called on; from_str of any other string
\* is the error "Unknown Status" and never a Status.
C13_StatusStringRoundTrip ==
    /\ rendered.called => rendered.value = RenderTable[status_in]
    /\ parsed.called =>
           /\ \A s \in Status :
                  str_in = RenderTable[s] => parsed.value = OkOf(s)
           /\ (\A s \in Status : str_in # RenderTable[s]) =>
                  /\ ~parsed.value.ok
                  /\ parsed.value.error.msg = "Unknown Status"
    /\ (rendered.called /\ parsed.called /\ str_in = rendered.value) =>
           parsed.value = OkOf(status_in)

C13_Witness ==
    /\ status_in = "Errored"
    /\ rendered = Returned("errored")
    /\ str_in = "errored"
    /\ parsed = Returned(OkOf("Errored"))

\* C14: no step of cmd_inspect or cmd_list changes the runs the store holds,
\* whatever the command goes on to return; the run cmd_inspect holds is the
\* one load_run returned and is never changed afterwards.
C14_InspectionReadsOnly ==
    [][/\ store' = store
       /\ loaded.some => loaded' = loaded
       /\ loaded' # loaded =>
              /\ calls'[Len(calls')].op = "load_run"
              /\ loaded' = calls'[Len(calls')].returned
              /\ loaded' \in Store_load_run(store, inspect_run_id,
                                            req.block_type, req.block_name)]_vars

C14_Witness ==
    /\ pc = "done"
    /\ ret = Ok
    /\ loaded.some
    /\ Len(store) = 1
    /\ Len(store[1].traces) = 2
    /\ Len(loaded.v.traces) = 1
    /\ Cardinality(LinesOf("execution")) = 4

\* the calls of history that are the first with their key
FirstCalls == {i \in 1..Len(history) :
                  \A j \in 1..(i - 1) : Key(history[j]) # Key(history[i])}

\* the last call of history with key k
LastCallWith(k) ==
    history[CHOOSE i \in 1..Len(history) :
                /\ Key(history[i]) = k
                /\ \A j \in (i + 1)..Len(history) : Key(history[j]) # k]

\* C15: after any sequence of set_block_status calls on a run made by
\* Run::new, the ledger has one entry per distinct key called, in the order
\* the keys were first called, and each entry is the argument of the last call
\* with its key.
C15_LedgerInFirstSeenOrder ==
    LET blocks == run.status.blocks
    IN  /\ Len(blocks) = Cardinality(FirstCalls)
        /\ \A i \in FirstCalls :
               LET p == Cardinality({j \in FirstCalls : j < i}) + 1
               IN  /\ Key(blocks[p]) = Key(history[i])
                   /\ blocks[p] = LastCallWith(Key(history[i]))

C15_Witness ==
    /\ Len(history) = 3
    /\ Key(history[1]) = <<"llm", "b">>
    /\ Key(history[2]) = <<"code", "a">>
    /\ Key(history[3]) = <<"llm", "b">>
    /\ history[3] # history[1]
    /\ run.status.blocks = <<history[3], history[2]>>

\* C16: after set_block_status the run-level status is what it was before
\* the call, whatever the block status written: an errored block does not
\* fail the run and a last terminal block does not end it.  The run-level
\* status a run has after a call differs from the one before only when the
\* call was set_run_status or set_status.
C16_BlockStatusKeepsRunStatus ==
    /\ last.op = "set_block_status" => RunStatus_run_status(run.status) = last.from
    /\ (last.from \in Status /\ RunStatus_run_status(run.status) # last.from)
           => last.op \in {"set_run_status", "set_status"}

C16_Witness ==
    /\ last.op = "set_block_status"
    /\ last.arg.status = "Errored"
    /\ last.from = "Running"
    /\ Len(run.status.blocks) = 2
    /\ \A i \in 1..2 : run.status.blocks[i].status \in Terminal
    /\ RunStatus_run_status(run.status) = "Running"

\* what the accessors run_id, created, app_hash and config return, and traces
Identity(self) ==
    <<Run_run_id(self), Run_created(self), Run_app_hash(self), Run_config(self),
      self.traces>>

\* C17: a call of set_status, set_run_status or set_block_status leaves
\* run_id, created, app_hash, config and traces as they were, so through any
\* sequence of calls they keep the values new or new_from_store gave them.
C17_IdentityKept ==
    [][Identity(run') = Identity(run)]_vars

C17_Witness ==
    /\ origin = "new_from_store"
    /\ last.op = "set_status"
    /\ last.arg = StatusDone
    /\ Identity(run) = <<"r2", 2, "h2", SummarizeConfig, OddTraces>>

\* the kinds of a "concurrency" field that is no non-negative integer
UnusableKinds == {"NegInt", "Float", "String", "Null", "Array", "Object"}

\* the block's entry exists and carries no usable override: it is no object,
\* or has no "concurrency", or has one that is no non-negative integer
NoUsableOverride(config, name) ==
    /\ name \in DOMAIN config.blocks
    /\ \/ config.blocks[name].kind # "Object"
       \/ "concurrency" \notin DOMAIN config.blocks[name].map
       \/ config.blocks[name].map["concurrency"].kind \in UnusableKinds

\* C18: for a name whose entry carries no usable override (no "concurrency",
\* or one that is a negative integer, a fraction, a string or null, or an
\* entry that is no object) the result is the default of the block type, 8
\* for LLM and 64 otherwise: never 0 and never a number made from the field.
C18_UnusableOverrideFallsBack ==
    (result.called /\ NoUsableOverride(cfg, query[2])) =>
        /\ result.value = DefaultTable[query[1]]
        /\ result.value \in {8, 64}

C18_Witness ==
    /\ result.called
    /\ query = <<"llm", "summarize">>
    /\ "summarize" \in DOMAIN cfg.blocks
    /\ cfg.blocks["summarize"] = JObject(Field("concurrency", JFloat(25)))
    /\ result.value = 8

====
